---- MODULE Spec2Model ----
(***************************************************************************)
(* Model of the text-segmentation pipeline of the research assistant:      *)
(* utils/text_processing.py (count_tokens, chunk_text,                     *)
(* _chunk_by_sentences) and EmbeddingService.chunk_and_embed.              *)
(*                                                                         *)
(* A text is a sequence of words separated by single blanks, the form      *)
(* clean_text produces.  A word is [len, term]: its number of characters   *)
(* and whether it ends with '.', '!' or '?'.  A unit (a sentence, or one   *)
(* word of a re-split sentence) is the range [first, last] of word         *)
(* positions it covers, so that two units are the same piece of the        *)
(* source exactly when they are equal.                                     *)
(*                                                                         *)
(* One run of _chunk_by_sentences is a sequence of steps, one step per     *)
(* call of count_tokens: each call either gets the tiktoken count or, when *)
(* the try block raises, the len(text) // 4 estimate.                      *)
(*                                                                         *)
(* The second part models services/retrieval_service.py (search_articles,  *)
(* generate_answer, answer_question, find_related_articles,                *)
(* synthesize_topic) over DatabaseService.query_pinecone and               *)
(* get_article_by_id.  One operation is one step; the outcome of every     *)
(* provider call in it (embedding, index query, completion) is chosen in   *)
(* the step.                                                               *)
(*                                                                         *)
(* The third part models the library: IngestionService.ingest_article and  *)
(* DatabaseService.delete_article over the articles and chunks tables of   *)
(* SQLite and the Pinecone index.  One operation is one step; the step     *)
(* chooses which of its calls (page fetch, embedding, a SQLite statement,  *)
(* the index upsert) fails, if any.                                        *)
(***************************************************************************)
EXTENDS Integers, Sequences, FiniteSets

\* ------------------------------------------------------------------ bounds
MaxWords == 3        \* longest text, in words
MaxSize == 3         \* largest chunk_size argument tried
MaxOverlap == 2      \* largest chunk_overlap argument tried
MaxVectors == 3      \* most vectors the index holds
MaxTopK == 2         \* largest top_k / max_articles argument tried
MaxScore == 2        \* similarity scores are 1..MaxScore
ContextBudget == 2   \* evidence items the completion provider's context holds
MaxChunks == 2       \* most chunks one ingested article is cut into
MaxUrls == 2         \* web pages the user ingests from, numbered from 1

\* ------------------------------------------------- configuration defaults
CHUNK_SIZE == 600
CHUNK_OVERLAP == 100
TOP_K_RESULTS == 5

\* ------------------------------------------------------------------ inputs
WordLens == {3, 8}
Words == [len : WordLens, term : BOOLEAN]
Texts == UNION {[1..n -> Words] : n \in 0..MaxWords}
SizeArgs == 0..MaxSize
OverlapArgs == -1..MaxOverlap
Entries == {"chunk_text", "chunk_and_embed"}
Tokenizers == {"precise", "fallback"}

VARIABLES
  text,             \* the text argument
  entry,            \* which function the caller invoked
  req_size,         \* chunk_size argument as passed by the caller
  req_overlap,      \* chunk_overlap argument as passed by the caller
  chunk_size,       \* chunk_size inside chunk_text
  chunk_overlap,    \* chunk_overlap inside chunk_text
  pc,               \* position in the code
  i,                \* index of the for loop over sentences (0-based)
  chunks,           \* list of emitted chunks
  current_chunk,    \* pending sentences
  current_tokens,
  sentence_tokens,  \* kept from line 61 to line 139 across the overlap walk
  j,                \* index of the for loop over words (0-based)
  temp_chunk,       \* pending words of a long sentence
  temp_tokens,
  word_tokens,      \* kept from line 81 to line 103 across the overlap walk
  k,                \* elements of the accumulator the overlap walk has left
  overlap_chunk,    \* overlap_chunk / overlap_words
  overlap_tokens,
  seed,             \* history: <<units, tokens>> of the pending accumulator
                    \*          that were carried over as overlap
  counted,          \* history: sum of sentence_tokens over the sentences read
  modes,            \* history: the tokenizers that answered in this call
  call,             \* "first" or "second" call on the same arguments
  first_result      \* what the first call returned

VARIABLES
  pinecone,         \* the vectors of the index, best match of the query first
  articles,         \* ids of the articles table of SQLite
  op,               \* the retrieval operation last invoked, with its
                    \* arguments and the outcome of each provider call
  ret,              \* what that operation returned
  calls             \* history: the provider calls that operation made

VARIABLES
  article_url,      \* the url column of the articles table, by article id
  sqlite_chunks,    \* the rows of the chunks table of SQLite
  deleted,          \* history: ids of the articles delete_article removed
  lib               \* the ingestion or deletion last invoked, with its
                    \* arguments, the outcome of each call in it and what
                    \* it returned

Chunker == <<text, entry, req_size, req_overlap, chunk_size, chunk_overlap, pc,
             i, chunks, current_chunk, current_tokens, sentence_tokens, j,
             temp_chunk, temp_tokens, word_tokens, k, overlap_chunk,
             overlap_tokens, seed, counted, modes, call, first_result>>

Retrieval == <<pinecone, articles, op, ret, calls>>

Library == <<article_url, sqlite_chunks, deleted, lib>>

vars == <<Chunker, Retrieval, Library>>

\* ---------------------------------------------------------------- helpers
RECURSIVE SumLen(_, _, _)
SumLen(t, a, b) == IF a > b THEN 0 ELSE t[a].len + SumLen(t, a + 1, b)

RECURSIVE SumCeil4(_, _, _)
SumCeil4(t, a, b) ==
  IF a > b THEN 0 ELSE ((t[a].len + 3) \div 4) + SumCeil4(t, a + 1, b)

\* len(s) of the string a unit stands for: its words and the blanks between
CharLen(t, u) ==
  IF u.first > u.last THEN 0
  ELSE SumLen(t, u.first, u.last) + (u.last - u.first)

\* count_tokens: the encoding's count, or len(text) // 4 when the try block
\* raises.  The encoding is modelled as one token per started group of four
\* characters of each word.
count_tokens(t, u, mode) ==
  IF mode = "precise" THEN SumCeil4(t, u.first, u.last)
  ELSE CharLen(t, u) \div 4

\* re.split(r'(?<=[.!?])\s+', text): cut after every word that ends a
\* sentence and is followed by a blank; the empty text gives [''].
RECURSIVE SplitFrom(_, _, _)
SplitFrom(t, a, b) ==
  IF b > Len(t) THEN <<[first |-> a, last |-> Len(t)]>>
  ELSE IF t[b].term /\ b < Len(t)
       THEN <<[first |-> a, last |-> b]>> \o SplitFrom(t, b + 1, b + 1)
       ELSE SplitFrom(t, a, b + 1)

SplitSentences(t) == SplitFrom(t, 1, 1)

\* sentence.split(): the words of a sentence, one unit each
SplitWordsWhole(u) == <<u>>

SplitWords(u) == [n \in 1..(u.last - u.first + 1) |->
                    [first |-> u.first + n - 1, last |-> u.first + n - 1]]

\* ' '.join(units): the words of the units, in order
RECURSIVE Join(_, _)
Join(t, us) ==
  IF us = <<>> THEN <<>>
  ELSE SubSeq(t, Head(us).first, Head(us).last) \o Join(t, Tail(us))

sentences == SplitSentences(text)
sentence == sentences[i + 1]
words == SplitWords(sentence)
word == words[j + 1]

NoSeed == [units |-> 0, tokens |-> 0]

\* chunks.append({...}): the dict of lines 66-71, 83-88, 106-111, 117-122,
\* 143-148; level, seed and tokens are history fields.
NewChunkIndexedBySentence(cs, us, start, end, lvl, sd, tok) ==
  [text |-> Join(text, us), chunk_index |-> start,
   start_sentence |-> start, end_sentence |-> end, embedding |-> "unset",
   units |-> us, level |-> lvl, seed |-> sd, tokens |-> tok]

NewChunk(cs, us, start, end, lvl, sd, tok) ==
  [text |-> Join(text, us), chunk_index |-> Len(cs),
   start_sentence |-> start, end_sentence |-> end, embedding |-> "unset",
   units |-> us, level |-> lvl, seed |-> sd, tokens |-> tok]

\* "if current_chunk: chunks.append(...)" of lines 65-71 and 142-148
FlushPendingDropped(cs, cur, idx, sd, tok) == cs

FlushPending(cs, cur, idx, sd, tok) ==
  IF cur # <<>>
  THEN Append(cs, NewChunk(cs, cur, idx - Len(cur), idx - 1, "sentence", sd, tok))
  ELSE cs

\* "current_tokens + sentence_tokens > chunk_size" (lines 82, 115)
ExceedsEarly(acc, n, size) == acc + n >= size - 1

Exceeds(acc, n, size) == acc + n > size

\* ------------------------------------------------------------------- Init
\* chunk_and_embed, lines 62-63: "x or default"
OrDefault(x, d) == IF x = 0 THEN d ELSE x

Entered(e, s, o) ==
  /\ chunk_size = (IF e = "chunk_and_embed" THEN OrDefault(s, CHUNK_SIZE) ELSE s)
  /\ chunk_overlap = (IF e = "chunk_and_embed" THEN OrDefault(o, CHUNK_OVERLAP) ELSE o)
  /\ pc = "for_sentence"
  /\ i = 0
  /\ chunks = <<>>
  /\ current_chunk = <<>>
  /\ current_tokens = 0
  /\ sentence_tokens = 0
  /\ j = 0
  /\ temp_chunk = <<>>
  /\ temp_tokens = 0
  /\ word_tokens = 0
  /\ k = 0
  /\ overlap_chunk = <<>>
  /\ overlap_tokens = 0
  /\ seed = NoSeed
  /\ counted = 0
  /\ modes = {}

\* no retrieval operation invoked, nothing stored
NoOp == [name |-> "none", top_k |-> 0, article_id |-> "none",
         embed_ok |-> TRUE, query_ok |-> TRUE, llm_ok |-> TRUE]
NoRet == [results |-> <<>>, answer |-> "", sources |-> <<>>, context |-> <<>>,
          evidence |-> <<>>,
          raised |-> "no"]
NoCalls == [embed |-> 0, query |-> 0, llm |-> 0, index_top_k |-> <<>>]

RetrievalIdle ==
  /\ pinecone = <<>>
  /\ articles = {}
  /\ op = NoOp
  /\ ret = NoRet
  /\ calls = NoCalls

\* no ingestion or deletion invoked
NoLib == [name |-> "none", url |-> 0, article_id |-> "none",
          exists_ok |-> TRUE, failed_at |-> "none", ok |-> TRUE,
          fetches |-> 0, embeds |-> 0, chunks |-> 0, existed |-> FALSE]

NoUrls == [a \in {} |-> "none"]

LibraryIdle ==
  /\ article_url = NoUrls
  /\ sqlite_chunks = {}
  /\ deleted = {}
  /\ lib = NoLib

Init ==
  /\ RetrievalIdle
  /\ LibraryIdle
  /\ text \in Texts
  /\ entry \in Entries
  /\ req_size \in SizeArgs
  /\ req_overlap \in OverlapArgs
  /\ call = "first"
  /\ first_result = <<>>
  /\ Entered(entry, req_size, req_overlap)


\* ---------------------------------------------------------------- actions
\* lines 56-58 and the locals of the loops, at the entry of a call
EnterChunkText ==
  /\ chunk_size' = (IF entry = "chunk_and_embed"
                    THEN OrDefault(req_size, CHUNK_SIZE) ELSE req_size)
  /\ chunk_overlap' = (IF entry = "chunk_and_embed"
                       THEN OrDefault(req_overlap, CHUNK_OVERLAP) ELSE req_overlap)
  /\ pc' = "for_sentence"
  /\ i' = 0
  /\ chunks' = <<>>
  /\ current_chunk' = <<>>
  /\ current_tokens' = 0
  /\ sentence_tokens' = 0
  /\ j' = 0
  /\ temp_chunk' = <<>>
  /\ temp_tokens' = 0
  /\ word_tokens' = 0
  /\ k' = 0
  /\ overlap_chunk' = <<>>
  /\ overlap_tokens' = 0
  /\ seed' = NoSeed
  /\ counted' = 0
  /\ modes' = {}

Inputs == <<text, entry, req_size, req_overlap, chunk_size, chunk_overlap,
            call, first_result>>
WordLocals == <<j, temp_chunk, temp_tokens, word_tokens>>
WalkLocals == <<k, overlap_chunk, overlap_tokens>>

\* lines 60-78: a sentence whose own count exceeds chunk_size; the pending
\* chunk is emitted and the loop over the sentence's words starts
SplitLongSentence ==
  /\ pc = "for_sentence"
  /\ i < Len(sentences)
  /\ \E mode \in Tokenizers :
       LET st == count_tokens(text, sentence, mode) IN
       /\ st > chunk_size
       /\ modes' = modes \cup {mode}
       /\ counted' = counted + st
       /\ chunks' = FlushPending(chunks, current_chunk, i, seed, current_tokens)
       /\ current_chunk' = <<>>
       /\ current_tokens' = 0
       /\ seed' = NoSeed
       /\ temp_chunk' = <<>>
       /\ temp_tokens' = 0
       /\ j' = 0
       /\ IF Len(words) = 0
          THEN i' = i + 1 /\ pc' = "for_sentence"
          ELSE i' = i /\ pc' = "for_word"
  /\ UNCHANGED <<Library, Retrieval, Inputs, sentence_tokens, word_tokens, WalkLocals>>

\* lines 60-61, 114-126: the sentence does not fit; the pending chunk is
\* emitted and the walk back over its sentences starts
CloseSegment ==
  /\ pc = "for_sentence"
  /\ i < Len(sentences)
  /\ \E mode \in Tokenizers :
       LET st == count_tokens(text, sentence, mode) IN
       /\ ~(st > chunk_size)
       /\ Exceeds(current_tokens, st, chunk_size) /\ current_chunk # <<>>
       /\ modes' = modes \cup {mode}
       /\ sentence_tokens' = st
       /\ counted' = counted + st
       /\ chunks' = Append(chunks, NewChunk(chunks, current_chunk,
                             i - Len(current_chunk), i - 1, "sentence",
                             seed, current_tokens))
       /\ k' = Len(current_chunk)
       /\ overlap_chunk' = <<>>
       /\ overlap_tokens' = 0
       /\ pc' = "overlap_sentences"
  /\ UNCHANGED <<Library, Retrieval, Inputs, i, current_chunk, current_tokens, seed, WordLocals>>

\* lines 60-61, 114-115, 138-139: the sentence joins the pending chunk
AppendSentence ==
  /\ pc = "for_sentence"
  /\ i < Len(sentences)
  /\ \E mode \in Tokenizers :
       LET st == count_tokens(text, sentence, mode) IN
       /\ ~(st > chunk_size)
       /\ ~(Exceeds(current_tokens, st, chunk_size) /\ current_chunk # <<>>)
       /\ modes' = modes \cup {mode}
       /\ counted' = counted + st
       /\ current_chunk' = Append(current_chunk, sentence)
       /\ current_tokens' = current_tokens + st
       /\ i' = i + 1
  /\ UNCHANGED <<Library, Retrieval, Inputs, pc, chunks, seed, sentence_tokens, WordLocals,
                 WalkLocals>>

\* lines 135-139: the walk is over; the overlap seeds the pending chunk and
\* the sentence is appended to it
SeedSentencesWithoutOverlap(ov, ovtok) ==
  /\ current_chunk' = <<sentence>>
  /\ current_tokens' = sentence_tokens
  /\ seed' = NoSeed
  /\ sentence_tokens' = 0
  /\ i' = i + 1
  /\ pc' = "for_sentence"
  /\ k' = 0
  /\ overlap_chunk' = <<>>
  /\ overlap_tokens' = 0

SeedSentences(ov, ovtok) ==
  /\ current_chunk' = Append(ov, sentence)
  /\ current_tokens' = ovtok + sentence_tokens
  /\ seed' = [units |-> Len(ov), tokens |-> ovtok]
  /\ sentence_tokens' = 0
  /\ i' = i + 1
  /\ pc' = "for_sentence"
  /\ k' = 0
  /\ overlap_chunk' = <<>>
  /\ overlap_tokens' = 0

\* lines 127-133: one turn of "for sent in reversed(current_chunk)"
OverlapSentence ==
  /\ pc = "overlap_sentences"
  /\ \E mode \in Tokenizers :
       LET sent == current_chunk[k]
           sent_tokens == count_tokens(text, sent, mode) IN
       /\ modes' = modes \cup {mode}
       /\ IF overlap_tokens + sent_tokens <= chunk_overlap
          THEN IF k = 1
               THEN SeedSentences(<<sent>> \o overlap_chunk,
                                  overlap_tokens + sent_tokens)
               ELSE /\ overlap_chunk' = <<sent>> \o overlap_chunk
                    /\ overlap_tokens' = overlap_tokens + sent_tokens
                    /\ k' = k - 1
                    /\ UNCHANGED <<current_chunk, current_tokens, seed,
                                   sentence_tokens, i, pc>>
          ELSE SeedSentences(overlap_chunk, overlap_tokens)
  /\ UNCHANGED <<Library, Retrieval, Inputs, chunks, counted, WordLocals>>

\* lines 102-112: the word joins temp_chunk; after the last word the rest of
\* temp_chunk is emitted and the loop over the sentences goes on
WordAppended(tc, tt, wt, sd) ==
  IF j + 1 = Len(words)
  THEN /\ chunks' = Append(chunks, NewChunk(chunks, Append(tc, word), i, i,
                                            "word", sd, tt + wt))
       /\ temp_chunk' = <<>>
       /\ temp_tokens' = 0
       /\ seed' = NoSeed
       /\ j' = 0
       /\ i' = i + 1
       /\ pc' = "for_sentence"
  ELSE /\ chunks' = chunks
       /\ temp_chunk' = Append(tc, word)
       /\ temp_tokens' = tt + wt
       /\ seed' = sd
       /\ j' = j + 1
       /\ i' = i
       /\ pc' = "for_word"

\* lines 80-82, 102-103: a word of the long sentence that fits
AppendWord ==
  /\ pc = "for_word"
  /\ \E mode \in Tokenizers :
       LET wt == count_tokens(text, word, mode) IN
       /\ ~(Exceeds(temp_tokens, wt, chunk_size) /\ temp_chunk # <<>>)
       /\ modes' = modes \cup {mode}
       /\ WordAppended(temp_chunk, temp_tokens, wt, seed)
       /\ UNCHANGED word_tokens
  /\ UNCHANGED <<Library, Retrieval, Inputs, current_chunk, current_tokens, sentence_tokens,
                 counted, WalkLocals>>

\* lines 80-91: a word that does not fit; temp_chunk is emitted and the walk
\* back over its words starts
CloseWordSegment ==
  /\ pc = "for_word"
  /\ \E mode \in Tokenizers :
       LET wt == count_tokens(text, word, mode) IN
       /\ Exceeds(temp_tokens, wt, chunk_size) /\ temp_chunk # <<>>
       /\ modes' = modes \cup {mode}
       /\ word_tokens' = wt
       /\ chunks' = Append(chunks, NewChunk(chunks, temp_chunk, i, i, "word",
                                            seed, temp_tokens))
       /\ k' = Len(temp_chunk)
       /\ overlap_chunk' = <<>>
       /\ overlap_tokens' = 0
       /\ pc' = "overlap_words"
  /\ UNCHANGED <<Library, Retrieval, Inputs, i, current_chunk, current_tokens, sentence_tokens,
                 counted, seed, j, temp_chunk, temp_tokens>>

\* lines 99-103: the walk is over; the overlap seeds temp_chunk and the word
\* is appended to it
SeedWords(ov, ovtok) ==
  /\ WordAppended(ov, ovtok, word_tokens, [units |-> Len(ov), tokens |-> ovtok])
  /\ word_tokens' = 0
  /\ k' = 0
  /\ overlap_chunk' = <<>>
  /\ overlap_tokens' = 0

\* lines 92-98: one turn of "for w in reversed(temp_chunk)"
OverlapWord ==
  /\ pc = "overlap_words"
  /\ \E mode \in Tokenizers :
       LET w == temp_chunk[k]
           w_tokens == count_tokens(text, w, mode) IN
       /\ modes' = modes \cup {mode}
       /\ IF overlap_tokens + w_tokens <= chunk_overlap
          THEN IF k = 1
               THEN SeedWords(<<w>> \o overlap_chunk, overlap_tokens + w_tokens)
               ELSE /\ overlap_chunk' = <<w>> \o overlap_chunk
                    /\ overlap_tokens' = overlap_tokens + w_tokens
                    /\ k' = k - 1
                    /\ UNCHANGED <<chunks, temp_chunk, temp_tokens, seed,
                                   word_tokens, j, i, pc>>
          ELSE SeedWords(overlap_chunk, overlap_tokens)
  /\ UNCHANGED <<Library, Retrieval, Inputs, current_chunk, current_tokens, sentence_tokens, counted>>

\* lines 141-150, and chunk_text's return to its caller
ReturnChunks ==
  /\ pc = "for_sentence"
  /\ i = Len(sentences)
  /\ chunks' = FlushPending(chunks, current_chunk, Len(sentences), seed,
                            current_tokens)
  /\ current_chunk' = <<>>
  /\ current_tokens' = 0
  /\ seed' = NoSeed
  /\ pc' = IF entry = "chunk_and_embed" THEN "embed" ELSE "returned"
  /\ UNCHANGED <<Library, Retrieval, Inputs, i, sentence_tokens, counted, modes, WordLocals,
                 WalkLocals>>

\* chunk_and_embed, lines 67-73: every chunk gets its embedding
EmbedChunks ==
  /\ pc = "embed"
  /\ chunks' = [n \in 1..Len(chunks) |-> [chunks[n] EXCEPT !.embedding = "set"]]
  /\ pc' = "returned"
  /\ UNCHANGED <<Library, Retrieval, Inputs, i, current_chunk, current_tokens, sentence_tokens,
                 seed, counted, modes, WordLocals, WalkLocals>>

\* chunk_and_embed, line 68: generate_embeddings raises, and so does the call
EmbedRaises ==
  /\ pc = "embed"
  /\ pc' = "raised"
  /\ UNCHANGED <<Library, Retrieval, Inputs, i, chunks, current_chunk, current_tokens,
                 sentence_tokens, seed, counted, modes, WordLocals, WalkLocals>>

\* what the caller sees of the returned list: each dict's 'text' and
\* 'chunk_index' (and sentence bounds, embedding), not the history fields
Returned(cs) ==
  [n \in 1..Len(cs) |->
     [text |-> cs[n].text, chunk_index |-> cs[n].chunk_index,
      start_sentence |-> cs[n].start_sentence,
      end_sentence |-> cs[n].end_sentence, embedding |-> cs[n].embedding]]

\* the caller makes the same call a second time
CallAgain ==
  /\ pc = "returned"
  /\ call = "first"
  /\ call' = "second"
  /\ first_result' = Returned(chunks)
  /\ EnterChunkText
  /\ UNCHANGED <<Library, Retrieval, text, entry, req_size, req_overlap>>

Next ==
  \/ SplitLongSentence
  \/ CloseSegment
  \/ AppendSentence
  \/ OverlapSentence
  \/ AppendWord
  \/ CloseWordSegment
  \/ OverlapWord
  \/ ReturnChunks
  \/ EmbedChunks
  \/ EmbedRaises
  \/ CallAgain

\* one call of chunk_text or chunk_and_embed
Call ==
  \/ SplitLongSentence
  \/ CloseSegment
  \/ AppendSentence
  \/ OverlapSentence
  \/ AppendWord
  \/ CloseWordSegment
  \/ OverlapWord
  \/ ReturnChunks
  \/ EmbedChunks
  \/ EmbedRaises

Spec == Init /\ [][Call]_vars

\* the same call made twice in a row
SpecTwice == Init /\ [][Next]_vars


\* ============================================================== retrieval
ArticleIds == {"a1", "a2", "a3"}
Scores == 1..MaxScore
TopKArgs == 0..MaxTopK
Vectors == [article_id : ArticleIds, score : Scores]

\* Pinecone ranks its matches by descending score
Ranked(vs) == \A n \in 1..(Len(vs) - 1) : vs[n].score >= vs[n + 1].score

Indexes == {vs \in UNION {[1..n -> Vectors] : n \in 0..MaxVectors} : Ranked(vs)}

TitleOf(a) == <<"title", a>>

Min(a, b) == IF a <= b THEN a ELSE b

\* query_pinecone, lines 180-188: a match becomes a SearchResult; the text
\* of a chunk is identified by the chunk's place in the index
ToSearchResult(vs, n) ==
  [article_id |-> vs[n].article_id, article_title |-> TitleOf(vs[n].article_id),
   chunk_text |-> n, score |-> vs[n].score]

\* index.query(vector, top_k): at most top_k matches, best first
IndexQuery(vs, top_k) ==
  [n \in 1..Min(top_k, Len(vs)) |-> ToSearchResult(vs, n)]

\* DatabaseService.query_pinecone, lines 163-193
QueryPinecone(vs, top_k, query_ok) ==
  LET asked == OrDefault(top_k, TOP_K_RESULTS)
  IN  [results |-> IF query_ok THEN IndexQuery(vs, asked) ELSE <<>>,
       index_top_k |-> <<asked>>]

\* RetrievalService.search_articles, lines 13-34, with the provider calls
\* it made
SearchArticlesUncaught(vs, top_k, embed_ok, query_ok) ==
  IF ~embed_ok
  THEN [results |-> <<>>, embed |-> 1, query |-> 0, index_top_k |-> <<>>,
        raised |-> "EmbeddingUnavailable"]
  ELSE LET q == QueryPinecone(vs, OrDefault(top_k, TOP_K_RESULTS), query_ok)
       IN  [results |-> q.results, embed |-> 1, query |-> 1,
            index_top_k |-> q.index_top_k, raised |-> "no"]

SearchArticlesRetrying(vs, top_k, embed_ok, query_ok) ==
  IF ~embed_ok
  THEN [results |-> <<>>, embed |-> 2, query |-> 0, index_top_k |-> <<>>,
        raised |-> "no"]
  ELSE LET q == QueryPinecone(vs, OrDefault(top_k, TOP_K_RESULTS), query_ok)
       IN  [results |-> q.results, embed |-> 1, query |-> 1,
            index_top_k |-> q.index_top_k, raised |-> "no"]

SearchArticles(vs, top_k, embed_ok, query_ok) ==
  IF ~embed_ok
  THEN [results |-> <<>>, embed |-> 1, query |-> 0, index_top_k |-> <<>>,
        raised |-> "no"]
  ELSE LET q == QueryPinecone(vs, OrDefault(top_k, TOP_K_RESULTS), query_ok)
       IN  [results |-> q.results, embed |-> 1, query |-> 1,
            index_top_k |-> q.index_top_k, raised |-> "no"]

\* the fixed texts of the operations
NoInformation == "I couldn't find any relevant information in your saved articles"
AnswerError == "I'm sorry, but I encountered an error generating an answer"
ProcessingError == "Error processing your question"
NoArticles == "No articles found on this topic."
SynthesisError == "Error generating synthesis"
Completion == "text of the completion"

\* generate_answer, lines 43-48: one part per result, numbered from 1
AnswerContext(context_results) ==
  [n \in 1..Len(context_results) |->
     [source |-> n, title |-> context_results[n].article_title,
      text |-> context_results[n].chunk_text]]

\* RetrievalService.generate_answer, lines 36-71
GenerateAnswerRetrying(context_results, llm_ok) ==
  [context |-> AnswerContext(context_results),
   answer |-> IF llm_ok THEN Completion ELSE AnswerError,
   llm |-> IF llm_ok THEN 1 ELSE 2]

GenerateAnswer(context_results, llm_ok) ==
  [context |-> AnswerContext(context_results),
   answer |-> IF llm_ok THEN Completion ELSE AnswerError,
   llm |-> 1]

\* RetrievalService.answer_question, lines 73-103
AnswerQuestionAlwaysGenerating(vs, top_k, embed_ok, query_ok, llm_ok) ==
  LET s == SearchArticles(vs, top_k, embed_ok, query_ok)
      g == GenerateAnswer(s.results, llm_ok)
  IN  [answer |-> g.answer, sources |-> s.results, context |-> g.context,
       evidence |-> s.results,
       embed |-> s.embed, query |-> s.query, llm |-> g.llm,
       index_top_k |-> s.index_top_k]

AnswerQuestion(vs, top_k, embed_ok, query_ok, llm_ok) ==
  LET s == SearchArticles(vs, top_k, embed_ok, query_ok)
      g == GenerateAnswer(s.results, llm_ok)
  IN  IF s.raised # "no"
      THEN [answer |-> ProcessingError, sources |-> <<>>, context |-> <<>>,
            evidence |-> <<>>,
            embed |-> s.embed, query |-> s.query, llm |-> 0,
            index_top_k |-> s.index_top_k]
      ELSE IF s.results = <<>>
      THEN [answer |-> NoInformation, sources |-> <<>>, context |-> <<>>,
            evidence |-> s.results,
            embed |-> s.embed, query |-> s.query, llm |-> 0,
            index_top_k |-> s.index_top_k]
      ELSE [answer |-> g.answer, sources |-> s.results, context |-> g.context,
            evidence |-> s.results,
            embed |-> s.embed, query |-> s.query, llm |-> g.llm,
            index_top_k |-> s.index_top_k]

\* find_related_articles, line 119
RECURSIVE NotOfArticle(_, _)
NotOfArticle(results, article_id) ==
  IF results = <<>> THEN <<>>
  ELSE IF Head(results).article_id # article_id
       THEN <<Head(results)>> \o NotOfArticle(Tail(results), article_id)
       ELSE NotOfArticle(Tail(results), article_id)

\* find_related_articles, lines 121-128
RECURSIVE UniqueRelated(_, _, _, _)
UniqueRelated(related, seen_ids, unique_related, top_k) ==
  IF related = <<>> THEN unique_related
  ELSE LET result == Head(related) IN
       IF result.article_id \notin seen_ids
       THEN IF Len(unique_related) + 1 >= top_k
            THEN Append(unique_related, result)
            ELSE UniqueRelated(Tail(related), seen_ids \cup {result.article_id},
                               Append(unique_related, result), top_k)
       ELSE UniqueRelated(Tail(related), seen_ids, unique_related, top_k)

\* RetrievalService.find_related_articles, lines 105-134
FindRelatedUnfiltered(vs, arts, article_id, top_k, embed_ok, query_ok) ==
  LET s == SearchArticles(vs, top_k * 2, embed_ok, query_ok)
  IN  [results |-> s.results, embed |-> s.embed, query |-> s.query,
       index_top_k |-> s.index_top_k]

FindRelatedArticles(vs, arts, article_id, top_k, embed_ok, query_ok) ==
  LET s == SearchArticles(vs, top_k * 2, embed_ok, query_ok)
  IN  IF article_id \notin arts
      THEN [results |-> <<>>, embed |-> 0, query |-> 0, index_top_k |-> <<>>]
      ELSE IF s.raised # "no"
      THEN [results |-> <<>>, embed |-> s.embed, query |-> s.query,
            index_top_k |-> s.index_top_k]
      ELSE [results |-> UniqueRelated(NotOfArticle(s.results, article_id),
                                      {}, <<>>, top_k),
            embed |-> s.embed, query |-> s.query,
            index_top_k |-> s.index_top_k]

\* synthesize_topic, lines 147-155: the keys of articles_content, in the
\* order of their insertion
RECURSIVE FirstSeen(_, _)
FirstSeen(results, seen) ==
  IF results = <<>> THEN <<>>
  ELSE IF Head(results).article_id \in seen
       THEN FirstSeen(Tail(results), seen)
       ELSE <<Head(results).article_id>>
            \o FirstSeen(Tail(results), seen \cup {Head(results).article_id})

RECURSIVE ChunksOf(_, _)
ChunksOf(results, article_id) ==
  IF results = <<>> THEN <<>>
  ELSE IF Head(results).article_id = article_id
       THEN <<Head(results).chunk_text>> \o ChunksOf(Tail(results), article_id)
       ELSE ChunksOf(Tail(results), article_id)

\* synthesize_topic, lines 147-164: one "From: title" part per article
SynthesisContextPerChunk(results) ==
  [n \in 1..Len(results) |->
     [title |-> results[n].article_title, chunks |-> <<results[n].chunk_text>>]]

SynthesisContext(results) ==
  LET ids == FirstSeen(results, {})
  IN  [n \in 1..Len(ids) |->
         [title |-> TitleOf(ids[n]), chunks |-> ChunksOf(results, ids[n])]]

\* RetrievalService.synthesize_topic, lines 136-186
SynthesizeTopicUncaught(vs, max_articles, embed_ok, query_ok, llm_ok) ==
  LET s == SearchArticles(vs, max_articles, embed_ok, query_ok)
  IN  IF s.results = <<>>
      THEN [answer |-> NoArticles, context |-> <<>>, evidence |-> s.results,
            embed |-> s.embed, query |-> s.query, llm |-> 0,
            index_top_k |-> s.index_top_k, raised |-> "no"]
      ELSE [answer |-> IF llm_ok THEN Completion ELSE "",
            context |-> SynthesisContext(s.results), evidence |-> s.results,
            embed |-> s.embed, query |-> s.query, llm |-> 1,
            index_top_k |-> s.index_top_k,
            raised |-> IF llm_ok THEN "no" ELSE "CompletionUnavailable"]

SynthesizeTopic(vs, max_articles, embed_ok, query_ok, llm_ok) ==
  LET s == SearchArticles(vs, max_articles, embed_ok, query_ok)
  IN  IF s.raised # "no"
      THEN [answer |-> SynthesisError, context |-> <<>>, evidence |-> <<>>,
            embed |-> s.embed, query |-> s.query, llm |-> 0,
            index_top_k |-> s.index_top_k, raised |-> "no"]
      ELSE IF s.results = <<>>
      THEN [answer |-> NoArticles, context |-> <<>>, evidence |-> s.results,
            embed |-> s.embed, query |-> s.query, llm |-> 0,
            index_top_k |-> s.index_top_k, raised |-> "no"]
      ELSE [answer |-> IF llm_ok THEN Completion ELSE SynthesisError,
            context |-> SynthesisContext(s.results), evidence |-> s.results,
            embed |-> s.embed, query |-> s.query, llm |-> 1,
            index_top_k |-> s.index_top_k, raised |-> "no"]

\* the chunker at rest while the retrieval operations run
ChunkerIdle ==
  /\ text = <<>>
  /\ entry = "chunk_text"
  /\ req_size = 0
  /\ req_overlap = 0
  /\ call = "first"
  /\ first_result = <<>>
  /\ Entered("chunk_text", 0, 0)

\* the url an article of the library was fetched from
UrlFor(a) == CASE a = "a1" -> 1 [] a = "a2" -> 2 [] a = "a3" -> 3

\* the rows of the chunks table for the vectors of an index
ChunkRows(vs) ==
  {[article_id |-> vs[n].article_id,
    chunk_index |-> Cardinality({m \in 1..(n - 1) :
                                   vs[m].article_id = vs[n].article_id})] :
     n \in 1..Len(vs)}

RetrievalInit ==
  /\ ChunkerIdle
  /\ pinecone \in Indexes
  /\ articles \in SUBSET ArticleIds
  /\ article_url = [a \in articles |-> UrlFor(a)]
  /\ sqlite_chunks = ChunkRows(pinecone)
  /\ deleted = {}
  /\ lib = NoLib
  /\ op = NoOp
  /\ ret = NoRet
  /\ calls = NoCalls

\* a caller invokes search_articles(query, top_k)
SearchDroppingMatches ==
  /\ op.name = "none"
  /\ \E top_k \in TopKArgs, embed_ok \in BOOLEAN, query_ok \in BOOLEAN :
       LET s == SearchArticles(pinecone, top_k, embed_ok, query_ok) IN
       /\ op' = [NoOp EXCEPT !.name = "search", !.top_k = top_k,
                             !.embed_ok = embed_ok, !.query_ok = query_ok]
       /\ ret' = [NoRet EXCEPT !.results = s.results, !.raised = s.raised]
       /\ calls' = [embed |-> s.embed, query |-> s.query, llm |-> 0,
                    index_top_k |-> s.index_top_k]
       /\ pinecone' = SubSeq(pinecone, Len(s.results) + 1, Len(pinecone))
  /\ UNCHANGED <<Chunker, Library, articles>>

Search ==
  /\ op.name = "none"
  /\ \E top_k \in TopKArgs, embed_ok \in BOOLEAN, query_ok \in BOOLEAN :
       LET s == SearchArticles(pinecone, top_k, embed_ok, query_ok) IN
       /\ op' = [NoOp EXCEPT !.name = "search", !.top_k = top_k,
                             !.embed_ok = embed_ok, !.query_ok = query_ok]
       /\ ret' = [NoRet EXCEPT !.results = s.results, !.raised = s.raised]
       /\ calls' = [embed |-> s.embed, query |-> s.query, llm |-> 0,
                    index_top_k |-> s.index_top_k]
  /\ UNCHANGED <<Chunker, Library, pinecone, articles>>

\* a caller invokes answer_question(question, top_k)
Answer ==
  /\ op.name = "none"
  /\ \E top_k \in TopKArgs, embed_ok \in BOOLEAN, query_ok \in BOOLEAN,
        llm_ok \in BOOLEAN :
       LET a == AnswerQuestion(pinecone, top_k, embed_ok, query_ok, llm_ok) IN
       /\ op' = [NoOp EXCEPT !.name = "answer", !.top_k = top_k,
                             !.embed_ok = embed_ok, !.query_ok = query_ok,
                             !.llm_ok = llm_ok]
       /\ ret' = [NoRet EXCEPT !.answer = a.answer, !.sources = a.sources,
                               !.context = a.context,
                               !.evidence = a.evidence]
       /\ calls' = [embed |-> a.embed, query |-> a.query, llm |-> a.llm,
                    index_top_k |-> a.index_top_k]
  /\ UNCHANGED <<Chunker, Library, pinecone, articles>>

\* a caller invokes find_related_articles(article_id, top_k)
FindRelated ==
  /\ op.name = "none"
  /\ \E article_id \in ArticleIds, top_k \in TopKArgs, embed_ok \in BOOLEAN,
        query_ok \in BOOLEAN :
       LET f == FindRelatedArticles(pinecone, articles, article_id, top_k,
                                    embed_ok, query_ok) IN
       /\ op' = [NoOp EXCEPT !.name = "related", !.top_k = top_k,
                             !.article_id = article_id,
                             !.embed_ok = embed_ok, !.query_ok = query_ok]
       /\ ret' = [NoRet EXCEPT !.results = f.results]
       /\ calls' = [embed |-> f.embed, query |-> f.query, llm |-> 0,
                    index_top_k |-> f.index_top_k]
  /\ UNCHANGED <<Chunker, Library, pinecone, articles>>

\* a caller invokes synthesize_topic(topic, max_articles)
Synthesize ==
  /\ op.name = "none"
  /\ \E max_articles \in TopKArgs, embed_ok \in BOOLEAN, query_ok \in BOOLEAN,
        llm_ok \in BOOLEAN :
       LET y == SynthesizeTopic(pinecone, max_articles, embed_ok, query_ok,
                                llm_ok) IN
       /\ op' = [NoOp EXCEPT !.name = "synthesize", !.top_k = max_articles,
                             !.embed_ok = embed_ok, !.query_ok = query_ok,
                             !.llm_ok = llm_ok]
       /\ ret' = [NoRet EXCEPT !.answer = y.answer, !.context = y.context,
                               !.evidence = y.evidence, !.raised = y.raised]
       /\ calls' = [embed |-> y.embed, query |-> y.query, llm |-> y.llm,
                    index_top_k |-> y.index_top_k]
  /\ UNCHANGED <<Chunker, Library, pinecone, articles>>

\* the caller is done with the result; the service keeps nothing of it
Forget ==
  /\ op.name # "none"
  /\ op' = NoOp
  /\ ret' = NoRet
  /\ calls' = NoCalls
  /\ UNCHANGED <<Chunker, Library, pinecone, articles>>

RetrievalNext ==
  \/ Search
  \/ Answer
  \/ FindRelated
  \/ Synthesize
  \/ Forget

RetrievalSpec == RetrievalInit /\ [][RetrievalNext]_vars

\* ================================================================ library
\* IngestionService.ingest_article and DatabaseService.delete_article over
\* the articles and chunks tables of SQLite and the Pinecone index.  A url
\* is the number of a web page, 0 a string validators.url rejects.
IngestUrls == 0..MaxUrls
IngestFailures == {"none", "fetch", "embed", "save_article", "upsert", "rows"}
DeleteFailures == {"none", "delete", "select"}

\* DatabaseService.article_exists, lines 270-277: a failing SELECT reads as
\* "not in the library"
ArticleExists(urls, url, exists_ok) ==
  exists_ok /\ \E a \in DOMAIN urls : urls[a] = url

\* IngestionService.fetch_article, lines 83-125; exists_ok is kept where
\* the failing SELECT changed the answer of article_exists
FetchArticle(urls, url, exists_ok, fails_at) ==
  LET in_library == \E a \in DOMAIN urls : urls[a] = url
      select_ok == exists_ok \/ ~in_library
  IN  IF url = 0
      THEN [ok |-> FALSE, fetches |-> 0, exists_ok |-> TRUE,
            failed_at |-> "none"]
      ELSE IF ArticleExists(urls, url, exists_ok)
      THEN [ok |-> FALSE, fetches |-> 0, exists_ok |-> select_ok,
            failed_at |-> "none"]
      ELSE IF fails_at = "fetch"
      THEN [ok |-> FALSE, fetches |-> 1, exists_ok |-> select_ok,
            failed_at |-> "fetch"]
      ELSE [ok |-> TRUE, fetches |-> 1, exists_ok |-> select_ok,
            failed_at |-> "none"]

\* DatabaseService.save_article, lines 99-124: INSERT OR REPLACE removes the
\* rows whose id (PRIMARY KEY) or url (UNIQUE) the new row has
SaveArticle(arts, urls, article_id, url) ==
  LET kept == {a \in arts : a # article_id /\ urls[a] # url}
  IN  [articles |-> kept \cup {article_id},
       article_url |-> [a \in kept \cup {article_id} |->
                          IF a = article_id THEN url ELSE urls[a]]]

\* a vector takes its place among the matches of the query, after the
\* matches that score as high
InsertRanked(vs, v) ==
  LET before == Cardinality({n \in 1..Len(vs) : vs[n].score >= v.score})
  IN  SubSeq(vs, 1, before) \o <<v>> \o SubSeq(vs, before + 1, Len(vs))

\* index.upsert(vectors=vectors), line 147: one vector per chunk
RECURSIVE Upsert(_, _, _)
Upsert(vs, article_id, scores) ==
  IF scores = <<>> THEN vs
  ELSE Upsert(InsertRanked(vs, [article_id |-> article_id,
                                score |-> Head(scores)]),
              article_id, Tail(scores))

\* DatabaseService.save_chunks_to_pinecone, lines 126-161
SaveChunksToPinecone(vs, rows, article_id, scores, fails_at) ==
  IF fails_at = "upsert"
  THEN [pinecone |-> vs, sqlite_chunks |-> rows, ok |-> FALSE]
  ELSE IF fails_at = "rows"
  THEN [pinecone |-> Upsert(vs, article_id, scores), sqlite_chunks |-> rows,
        ok |-> FALSE]
  ELSE [pinecone |-> Upsert(vs, article_id, scores),
        sqlite_chunks |-> rows \cup {[article_id |-> article_id,
                                      chunk_index |-> n - 1] :
                                       n \in 1..Len(scores)},
        ok |-> TRUE]

\* IngestionService.process_and_store_article, lines 222-264
ProcessAndStoreArticle(arts, urls, rows, vs, article_id, url, scores, fails_at) ==
  LET a == SaveArticle(arts, urls, article_id, url)
      c == SaveChunksToPinecone(vs, rows, article_id, scores, fails_at)
  IN  IF fails_at \in {"embed", "save_article"}
      THEN [articles |-> arts, article_url |-> urls, sqlite_chunks |-> rows,
            pinecone |-> vs, ok |-> FALSE, embeds |-> 1,
            failed_at |-> fails_at]
      ELSE [articles |-> a.articles, article_url |-> a.article_url,
            sqlite_chunks |-> c.sqlite_chunks, pinecone |-> c.pinecone,
            ok |-> c.ok, embeds |-> 1,
            failed_at |-> IF c.ok THEN "none" ELSE fails_at]

\* IngestionService.ingest_article, lines 266-275
IngestArticle(arts, urls, rows, vs, article_id, url, scores, exists_ok, fails_at) ==
  LET f == FetchArticle(urls, url, exists_ok, fails_at)
      s == ProcessAndStoreArticle(arts, urls, rows, vs, article_id, url,
                                  scores, fails_at)
  IN  IF ~f.ok
      THEN [articles |-> arts, article_url |-> urls, sqlite_chunks |-> rows,
            pinecone |-> vs, ok |-> FALSE, fetches |-> f.fetches,
            embeds |-> 0, exists_ok |-> f.exists_ok,
            failed_at |-> f.failed_at]
      ELSE [articles |-> s.articles, article_url |-> s.article_url,
            sqlite_chunks |-> s.sqlite_chunks, pinecone |-> s.pinecone,
            ok |-> s.ok, fetches |-> f.fetches, embeds |-> s.embeds,
            exists_ok |-> f.exists_ok, failed_at |-> s.failed_at]

\* index.delete(ids=chunk_ids), line 263: the vectors of the chunk rows
WithoutChunks(vs, chunk_ids) ==
  LET gone == {r.article_id : r \in chunk_ids}
      RECURSIVE Rest(_)
      Rest(ws) == IF ws = <<>> THEN <<>>
                  ELSE IF Head(ws).article_id \in gone THEN Rest(Tail(ws))
                  ELSE <<Head(ws)>> \o Rest(Tail(ws))
  IN  Rest(vs)

\* DatabaseService.delete_article, lines 250-268: the chunk ids are selected
\* after the chunk rows were deleted and committed
DeleteArticle(arts, urls, rows, vs, article_id, fails_at) ==
  LET arts_left == arts \ {article_id}
      rows_left == {r \in rows : r.article_id # article_id}
      chunk_ids == {r \in rows_left : r.article_id = article_id}
  IN  IF fails_at = "delete"
      THEN [articles |-> arts, article_url |-> urls, sqlite_chunks |-> rows,
            pinecone |-> vs, ok |-> FALSE]
      ELSE [articles |-> arts_left,
            article_url |-> [a \in arts_left |-> urls[a]],
            sqlite_chunks |-> rows_left,
            pinecone |-> IF fails_at = "none" /\ chunk_ids # {}
                         THEN WithoutChunks(vs, chunk_ids) ELSE vs,
            ok |-> fails_at = "none"]

\* ids some record of the stores, or a deletion, has used
UsedIds ==
  articles \cup deleted \cup {r.article_id : r \in sqlite_chunks}
    \cup {pinecone[n].article_id : n \in 1..Len(pinecone)}

\* uuid4(): an id never used before; which one makes no difference
NewId == CHOOSE a \in ArticleIds \ UsedIds :
           \A b \in ArticleIds \ UsedIds : UrlFor(a) <= UrlFor(b)

LibraryInit ==
  /\ ChunkerIdle
  /\ RetrievalIdle
  /\ LibraryIdle

\* the user adds the article of a url
Ingest ==
  /\ op.name = "none"
  /\ lib.name = "none"
  /\ ArticleIds \ UsedIds # {}
  /\ \E url \in IngestUrls, exists_ok \in BOOLEAN, fails_at \in IngestFailures,
        n \in 1..MaxChunks :
       /\ Len(pinecone) + n <= MaxVectors
       /\ \E scores \in [1..n -> Scores] :
            LET r == IngestArticle(articles, article_url, sqlite_chunks,
                                   pinecone, NewId, url, scores, exists_ok,
                                   fails_at) IN
            /\ articles' = r.articles
            /\ article_url' = r.article_url
            /\ sqlite_chunks' = r.sqlite_chunks
            /\ pinecone' = r.pinecone
            /\ lib' = [name |-> "ingest", url |-> url, article_id |-> NewId,
                       exists_ok |-> r.exists_ok, failed_at |-> r.failed_at,
                       ok |-> r.ok, fetches |-> r.fetches,
                       embeds |-> r.embeds,
                       chunks |-> IF r.embeds = 1 /\ r.failed_at # "embed"
                                  THEN n ELSE 0,
                       existed |-> \E a \in articles : article_url[a] = url]
  /\ UNCHANGED <<Chunker, deleted, op, ret, calls>>

\* the user deletes an article of the library
Delete ==
  /\ op.name = "none"
  /\ lib.name = "none"
  /\ \E article_id \in articles, fails_at \in DeleteFailures :
       LET r == DeleteArticle(articles, article_url, sqlite_chunks, pinecone,
                              article_id, fails_at) IN
       /\ articles' = r.articles
       /\ article_url' = r.article_url
       /\ sqlite_chunks' = r.sqlite_chunks
       /\ pinecone' = r.pinecone
       /\ deleted' = IF r.ok THEN deleted \cup {article_id} ELSE deleted
       /\ lib' = [NoLib EXCEPT !.name = "delete", !.article_id = article_id,
                               !.url = article_url[article_id],
                               !.failed_at = fails_at, !.ok = r.ok,
                               !.existed = TRUE]
  /\ UNCHANGED <<Chunker, op, ret, calls>>

\* the user has read the report of the ingestion or deletion
ForgetLibrary ==
  /\ lib.name # "none"
  /\ lib' = NoLib
  /\ UNCHANGED <<Chunker, Retrieval, article_url, sqlite_chunks, deleted>>

LibraryNext ==
  \/ Ingest
  \/ Delete
  \/ ForgetLibrary
  \/ (lib.name = "none" /\ Search)
  \/ Forget

LibrarySpec == LibraryInit /\ [][LibraryNext]_vars

\* ----------------------------------------------------------------- claims
\* the constraints of the chunker's contract, on what chunk_text received
ValidConfig == chunk_size > 0 /\ 0 <= chunk_overlap /\ chunk_overlap < chunk_size

\* the same constraints on what the caller asked for
ValidRequest == req_size > 0 /\ 0 <= req_overlap /\ req_overlap < req_size

Suffix(us, n) == SubSeq(us, Len(us) - n + 1, Len(us))
SeedUnits(c) == SubSeq(c.units, 1, c.seed.units)
FreshOf(c) == SubSeq(c.units, c.seed.units + 1, Len(c.units))

RECURSIVE FreshUnits(_)
FreshUnits(cs) ==
  IF cs = <<>> THEN <<>> ELSE FreshOf(Head(cs)) \o FreshUnits(Tail(cs))

RECURSIVE Positions(_)
Positions(us) ==
  IF us = <<>> THEN <<>>
  ELSE [n \in 1..(Head(us).last - Head(us).first + 1) |-> Head(us).first + n - 1]
       \o Positions(Tail(us))

\* every count of the call so far came from the same tokenizer
OneTokenizer == Cardinality(modes) <= 1

IsSourceUnit(u) ==
  \E n \in 1..Len(sentences) :
    \/ u = sentences[n]
    \/ \E m \in 1..Len(SplitWords(sentences[n])) : u = SplitWords(sentences[n])[m]

\* C1: under a valid configuration every emitted segment's token count (the
\* sum of the counts of its units) is at most chunk_size, unless the segment
\* is one single unit that alone exceeds chunk_size.  Stated for the calls
\* in which one tokenizer answered every count, so that a violation does not
\* rest on mixed counts (C10).
C1_SegmentsWithinMax ==
  (ValidConfig /\ OneTokenizer) =>
    \A n \in 1..Len(chunks) :
      \/ chunks[n].tokens <= chunk_size
      \/ Len(chunks[n].units) = 1 /\ chunks[n].tokens > chunk_size

\* C2: under a valid configuration with chunk_overlap > 0, whenever two or
\* more segments are returned, every segment after the first starts with a
\* non-empty run of the trailing units of the segment before it, of more
\* than 0 and at most chunk_overlap tokens.  Stated for the calls in which
\* one tokenizer answered every count.
C2_ConsecutiveShareOverlap ==
  (ValidConfig /\ OneTokenizer /\ chunk_overlap > 0 /\ pc = "returned"
     /\ Len(chunks) >= 2) =>
    \A n \in 2..Len(chunks) :
      /\ chunks[n].seed.units > 0
      /\ chunks[n].seed.units <= Len(chunks[n - 1].units)
      /\ SeedUnits(chunks[n]) = Suffix(chunks[n - 1].units, chunks[n].seed.units)
      /\ chunks[n].seed.tokens > 0
      /\ chunks[n].seed.tokens <= chunk_overlap

\* C3: the chunk_index values of the emitted segments are 0, 1, ..., n-1 in
\* emission order, at every moment of the call.
C3_ContiguousIndices ==
  \A n \in 1..Len(chunks) : chunks[n].chunk_index = n - 1

\* C3 witness: a call returned at least three segments, some made of whole
\* sentences and some of the words of a re-split sentence.
C3_Witness ==
  /\ pc = "returned"
  /\ Len(chunks) >= 3
  /\ \E n \in 1..Len(chunks) : chunks[n].level = "word"
  /\ \E n \in 1..Len(chunks) : chunks[n].level = "sentence"

\* C4: a call whose arguments violate chunk_size > 0 and
\* 0 <= chunk_overlap < chunk_size produces no segment and does not return
\* normally.
C4_InvalidConfigurationRejected ==
  ~ValidRequest => (chunks = <<>> /\ pc \notin {"embed", "returned"})

\* C5: chunk_text on the empty text returns the empty list, under every
\* valid configuration.
C5_EmptyTextNoSegments ==
  (text = <<>> /\ ValidConfig /\ pc = "returned") => chunks = <<>>

\* C6: when the caller asks for an overlap of 0 (with a positive chunk size),
\* no emitted segment starts with units carried over from the one before.
\* Stated for the calls in which one tokenizer answered every count.
C6_ZeroOverlapNoSharing ==
  (req_overlap = 0 /\ req_size > 0 /\ OneTokenizer) =>
    \A n \in 1..Len(chunks) : chunks[n].seed.units = 0

\* C7: when the call returns, the segments in order with their overlap seeds
\* removed are the units of the source (sentences, or words of a sentence)
\* in source order, covering every word position exactly once; and each
\* seed is the tail of the segment before.
C7_SegmentsCoverSource ==
  pc = "returned" =>
    /\ Positions(FreshUnits(chunks)) = [n \in 1..Len(text) |-> n]
    /\ \A n \in 1..Len(FreshUnits(chunks)) : IsSourceUnit(FreshUnits(chunks)[n])
    /\ \A n \in 1..Len(chunks) :
         chunks[n].seed.units > 0 =>
           /\ n > 1
           /\ chunks[n].seed.units <= Len(chunks[n - 1].units)
           /\ SeedUnits(chunks[n]) = Suffix(chunks[n - 1].units, chunks[n].seed.units)

\* C7 witness: a valid call returned at least three segments, one of them
\* seeded with overlap and one made of words of a re-split sentence.
C7_Witness ==
  /\ pc = "returned"
  /\ ValidConfig
  /\ Len(chunks) >= 3
  /\ \E n \in 1..Len(chunks) : chunks[n].seed.units > 0
  /\ \E n \in 1..Len(chunks) : chunks[n].level = "word"

\* C8: a non-empty text whose sentences' token counts, as counted in the
\* call, sum to less than chunk_size is returned as exactly one segment
\* holding all its sentences in order.
C8_ShortTextOneSegment ==
  (pc = "returned" /\ text # <<>> /\ counted < chunk_size) =>
    /\ Len(chunks) = 1
    /\ chunks[1].units = sentences
    /\ chunks[1].text = text

\* C8 witness: a text of several sentences, shorter than a chunk size the
\* caller chose, was returned.
C8_Witness ==
  /\ pc = "returned"
  /\ entry = "chunk_text"
  /\ Len(sentences) >= 2
  /\ counted > 0
  /\ counted < chunk_size

\* C9: a second call on the same text with the same arguments returns the
\* same list of segments as the first.
C9_TwiceIdentical ==
  (call = "second" /\ pc = "returned") => Returned(chunks) = first_result

\* C10: within one call under a valid configuration, all token counts come
\* from the same tokenizer.
C10_SingleTokenizer == ValidConfig => Cardinality(modes) <= 1

\* ------------------------------------------------------- retrieval claims
NonIncreasing(results) ==
  \A n \in 1..(Len(results) - 1) : results[n].score >= results[n + 1].score

IdsOf(results) == [n \in 1..Len(results) |-> results[n].article_id]

DistinctIds(results) ==
  \A m, n \in 1..Len(results) :
    results[m].article_id = results[n].article_id => m = n

\* the candidates find_related_articles deduplicates: what its search
\* returned, less the chunks of the source article
RelatedCandidates ==
  NotOfArticle(SearchArticles(pinecone, op.top_k * 2, op.embed_ok,
                              op.query_ok).results, op.article_id)

\* C11: search returns at most top_k items, in non-increasing order of
\* score, for every top_k.
C11_SearchWithinTopK ==
  op.name = "search" =>
    /\ Len(ret.results) <= op.top_k
    /\ NonIncreasing(ret.results)

\* C12: search never raises; when the embedding provider fails, the index
\* query fails or the index has no match, search returns the empty sequence.
C12_SearchDegradesToEmpty ==
  op.name = "search" =>
    /\ ret.raised = "no"
    /\ (~op.embed_ok \/ ~op.query_ok \/ pinecone = <<>>) => ret.results = <<>>

\* C12 witness: a search over a non-empty index whose embedding call
\* failed returned the empty sequence.
C12_Witness ==
  /\ op.name = "search"
  /\ pinecone # <<>>
  /\ ~op.embed_ok
  /\ ret.results = <<>>

\* C13 as stated: when the embedding provider fails, search fails with
\* EmbeddingUnavailable, after one embedding call.
C13_EmbeddingFailureSurfaced ==
  (op.name = "search" /\ ~op.embed_ok) =>
    /\ ret.raised = "EmbeddingUnavailable"
    /\ calls.embed = 1

\* C13 amended: when the embedding provider fails, search catches the
\* failure: it returns the empty sequence without raising, after exactly
\* one embedding call and no index query.
C13_EmbeddingFailureDegraded ==
  (op.name = "search" /\ ~op.embed_ok) =>
    /\ ret.raised = "no"
    /\ ret.results = <<>>
    /\ calls.embed = 1
    /\ calls.query = 0

\* C13 witness: a search whose embedding call failed ended after that one
\* call, the index never queried although it would have answered.
C13_Witness ==
  /\ op.name = "search"
  /\ ~op.embed_ok
  /\ op.query_ok
  /\ Len(pinecone) >= 2
  /\ calls.embed = 1
  /\ calls.query = 0

\* C14: the result of find_related_articles(article_id, top_k) holds no
\* item of article_id and no two items of the same article.
C14_RelatedExcludesSourceNoDuplicates ==
  op.name = "related" =>
    /\ \A n \in 1..Len(ret.results) : ret.results[n].article_id # op.article_id
    /\ DistinctIds(ret.results)

\* C14 witness: find_related_articles returned items although the index
\* ranks a chunk of the source article first and holds two chunks of one
\* other article.
C14_Witness ==
  /\ op.name = "related"
  /\ ret.results # <<>>
  /\ pinecone # <<>>
  /\ pinecone[1].article_id = op.article_id
  /\ \E m, n \in 1..Len(pinecone) :
       /\ m < n
       /\ pinecone[m].article_id = pinecone[n].article_id
       /\ pinecone[m].article_id # op.article_id

\* C15: find_related_articles returns at most top_k items for every
\* top_k >= 0; the item kept of an article is its highest-scoring candidate,
\* the earliest in provider order among equal scores; the result is in
\* provider order.
C15_RelatedTruncatedBestPerDocument ==
  op.name = "related" =>
    /\ Len(ret.results) <= op.top_k
    /\ \A n \in 1..Len(ret.results) :
         \A c \in 1..Len(RelatedCandidates) :
           RelatedCandidates[c].article_id = ret.results[n].article_id =>
             /\ RelatedCandidates[c].score <= ret.results[n].score
             /\ RelatedCandidates[c].score = ret.results[n].score =>
                  ret.results[n].chunk_text <= RelatedCandidates[c].chunk_text
    /\ \A n \in 1..(Len(ret.results) - 1) :
         ret.results[n].chunk_text < ret.results[n + 1].chunk_text

\* C16: when retrieval yields no evidence, answer_question returns empty
\* sources and a non-empty text, and the completion provider is not called.
C16_NoEvidenceFixedAnswer ==
  (op.name = "answer" /\ ret.evidence = <<>>) =>
    /\ ret.sources = <<>>
    /\ ret.answer # ""
    /\ calls.llm = 0

\* C16 witness: answer_question ran with working providers over an empty
\* index and returned its fixed text.
C16_Witness ==
  /\ op.name = "answer"
  /\ op.embed_ok
  /\ op.query_ok
  /\ pinecone = <<>>
  /\ ret.answer = NoInformation

\* C17: when evidence is found and the completion call fails,
\* answer_question does not raise, its text tells of the failure and its
\* sources are empty.
C17_CompletionFailureEmptySources ==
  (op.name = "answer" /\ ret.evidence # <<>> /\ ~op.llm_ok) =>
    /\ ret.raised = "no"
    /\ ret.answer = AnswerError
    /\ ret.sources = <<>>

\* C18: the sources of every answer hold each article at most once, in the
\* order of first appearance in the ranked evidence (checked on the answers
\* whose completion call succeeded).
C18_SourcesDeduplicated ==
  (op.name = "answer" /\ op.llm_ok) =>
    /\ DistinctIds(ret.sources)
    /\ ret.sources # <<>> => IdsOf(ret.sources) = FirstSeen(ret.evidence, {})

\* C19: the context sent to the completion provider is made of whole
\* evidence items in ranked order, the item at rank n labelled with source
\* number n and its title; when the evidence does not fit the provider's
\* context budget, the context is the longest prefix of it that does
\* (checked on the answers whose completion call succeeded).
C19_ContextWithinBudget ==
  (op.name = "answer" /\ ret.evidence # <<>> /\ op.llm_ok) =>
    /\ Len(ret.context) <= Len(ret.evidence)
    /\ \A n \in 1..Len(ret.context) :
         /\ ret.context[n].source = n
         /\ ret.context[n].title = ret.evidence[n].article_title
         /\ ret.context[n].text = ret.evidence[n].chunk_text
    /\ Len(ret.context) = Min(Len(ret.evidence), ContextBudget)

\* C20: answer_question and synthesize_topic with non-empty evidence call
\* the completion provider exactly once; a search calls the embedding
\* provider and the index at most once each; no operation calls a provider
\* again after that provider failed.
C20_OneCallPerProvider ==
  /\ (op.name \in {"answer", "synthesize"} /\ ret.evidence # <<>>) =>
       calls.llm = 1
  /\ op.name = "search" => (calls.embed <= 1 /\ calls.query <= 1)
  /\ ~op.embed_ok => calls.embed <= 1
  /\ ~op.query_ok => calls.query <= 1
  /\ ~op.llm_ok => calls.llm <= 1

\* C20 witness: an answer_question that found evidence and whose completion
\* call failed made that one call and no other.
C20_Witness ==
  /\ op.name = "answer"
  /\ ret.evidence # <<>>
  /\ ~op.llm_ok
  /\ calls.llm = 1
  /\ calls.embed = 1
  /\ calls.query = 1

\* the place of an article's first item in ranked evidence
FirstPlace(evidence, article_id) ==
  CHOOSE n \in 1..Len(evidence) :
    /\ evidence[n].article_id = article_id
    /\ \A m \in 1..(n - 1) : evidence[m].article_id # article_id

\* the texts of an article's items, in ranked order
RECURSIVE TextsOf(_, _)
TextsOf(evidence, article_id) ==
  IF evidence = <<>> THEN <<>>
  ELSE LET rest == TextsOf(SubSeq(evidence, 1, Len(evidence) - 1), article_id)
           last == evidence[Len(evidence)]
       IN  IF last.article_id = article_id
           THEN Append(rest, last.chunk_text) ELSE rest

EvidenceIds == {ret.evidence[n].article_id : n \in 1..Len(ret.evidence)}

\* the article a context block of synthesize_topic is labelled with
BlockId(block) == CHOOSE a \in ArticleIds : TitleOf(a) = block.title

\* C21: synthesize_topic builds one context block per distinct article of
\* the retrieved evidence, the blocks in the order of their articles' first
\* appearance, each labelled with the article's title and holding the
\* article's evidence texts in ranked order, all in one completion call;
\* evidence of exactly two articles gives exactly two blocks.
C21_SynthesisBlocksPerDocument ==
  (op.name = "synthesize" /\ ret.evidence # <<>>) =>
    /\ calls.llm = 1
    /\ Len(ret.context) = Cardinality(EvidenceIds)
    /\ Cardinality(EvidenceIds) = 2 => Len(ret.context) = 2
    /\ \A b \in 1..Len(ret.context) :
         /\ \E a \in EvidenceIds : ret.context[b].title = TitleOf(a)
         /\ ret.context[b].chunks = TextsOf(ret.evidence, BlockId(ret.context[b]))
    /\ \A b, c \in 1..Len(ret.context) :
         b < c => FirstPlace(ret.evidence, BlockId(ret.context[b]))
                    < FirstPlace(ret.evidence, BlockId(ret.context[c]))

\* C21 witness: synthesize_topic retrieved three items of two articles, the
\* second article's item ranked between the two of the first, and sent two
\* blocks in one completion call.
C21_Witness ==
  /\ op.name = "synthesize"
  /\ Len(ret.evidence) = 3
  /\ ret.evidence[1].article_id = ret.evidence[3].article_id
  /\ ret.evidence[1].article_id # ret.evidence[2].article_id
  /\ Len(ret.context) = 2
  /\ calls.llm = 1

\* C22: synthesize_topic never raises: whatever the embedding provider, the
\* index and the completion provider do, it returns a string, and when the
\* completion call fails the string is the error message.
C22_SynthesizeNeverRaises ==
  op.name = "synthesize" =>
    /\ ret.raised = "no"
    /\ ret.answer \in {Completion, NoArticles, SynthesisError}
    /\ (ret.evidence # <<>> /\ ~op.llm_ok) => ret.answer = SynthesisError

\* C22 witness: synthesize_topic found evidence, its completion call failed
\* and it returned the error message.
C22_Witness ==
  /\ op.name = "synthesize"
  /\ ret.evidence # <<>>
  /\ ~op.llm_ok
  /\ calls.llm = 1
  /\ ret.answer = SynthesisError

\* C27: find_related_articles asks the index for exactly 2 * top_k
\* candidates for every top_k, and when the source article is not in the
\* metadata store it returns the empty sequence without any search.
C27_RelatedOverfetch ==
  op.name = "related" =>
    /\ (op.article_id \in articles /\ op.embed_ok) =>
         calls.index_top_k = <<2 * op.top_k>>
    /\ op.article_id \notin articles =>
         (ret.results = <<>> /\ calls.embed = 0 /\ calls.query = 0)

\* ------------------------------------------------- chunker claims, second
\* the tokenizer that answered the counts of a call in which one did
TheTokenizer == CHOOSE mode \in modes : TRUE

\* the token total of units, each counted by that tokenizer
RECURSIVE Total(_)
Total(us) ==
  IF us = <<>> THEN 0
  ELSE count_tokens(text, Head(us), TheTokenizer) + Total(Tail(us))

\* sentence n (0-based) alone exceeds chunk_size
LongSentence(n) == Total(<<sentences[n + 1]>>) > chunk_size

\* C25: under a valid configuration, a segment that follows a segment closed
\* because the next sentence did not fit starts with the longest suffix of
\* the closed segment's sentences whose token total is at most
\* chunk_overlap, whole and in order, and the new sentence follows this
\* seed.  Stated for the calls in which one tokenizer answered every count.
C25_SeedIsLongestSuffix ==
  (ValidConfig /\ OneTokenizer) =>
    \A n \in 2..Len(chunks) :
      (chunks[n].level = "sentence" /\ chunks[n - 1].level = "sentence") =>
        LET closed == chunks[n - 1].units
            taken == chunks[n].seed.units
        IN  /\ taken <= Len(closed)
            /\ SeedUnits(chunks[n]) = Suffix(closed, taken)
            /\ Total(Suffix(closed, taken)) <= chunk_overlap
            /\ taken < Len(closed) =>
                 Total(Suffix(closed, taken + 1)) > chunk_overlap
            /\ Len(chunks[n].units) > taken
            /\ chunks[n].units[taken + 1]
                 = sentences[chunks[n - 1].end_sentence + 2]

\* C25 witness: a segment of several sentences was closed and the next
\* segment was seeded with some, not all, of its sentences.
C25_Witness ==
  /\ pc = "returned"
  /\ ValidConfig
  /\ OneTokenizer
  /\ \E n \in 2..Len(chunks) :
       /\ chunks[n].level = "sentence"
       /\ chunks[n - 1].level = "sentence"
       /\ chunks[n].seed.units >= 1
       /\ chunks[n].seed.units < Len(chunks[n - 1].units)

\* C26: under a valid configuration, a sentence that alone exceeds
\* chunk_size is emitted, after the pending segment, as one or more segments
\* made only of its own words, windowed with overlap like sentences, before
\* the next sentence is looked at: no segment mixes its words with another
\* sentence, and the segments are in source order.  Stated for the calls in
\* which one tokenizer answered every count.
C26_LongSentenceResplit ==
  (ValidConfig /\ OneTokenizer) =>
    /\ \A n \in 1..Len(chunks) :
         LET c == chunks[n] IN
         IF c.level = "word"
         THEN /\ c.start_sentence = c.end_sentence
              /\ LongSentence(c.start_sentence)
              /\ \A m \in 1..Len(c.units) :
                   /\ c.units[m].first = c.units[m].last
                   /\ sentences[c.start_sentence + 1].first <= c.units[m].first
                   /\ c.units[m].last <= sentences[c.start_sentence + 1].last
              /\ \A m \in 1..(Len(c.units) - 1) :
                   c.units[m + 1].first = c.units[m].first + 1
              /\ n > 1 =>
                   \/ /\ chunks[n - 1].level = "word"
                      /\ chunks[n - 1].start_sentence = c.start_sentence
                      /\ c.seed.units <= Len(chunks[n - 1].units)
                      /\ SeedUnits(c) = Suffix(chunks[n - 1].units, c.seed.units)
                      /\ c.seed.tokens <= chunk_overlap
                      /\ Len(c.units) > c.seed.units
                      /\ c.units[c.seed.units + 1].first
                           = chunks[n - 1].units[Len(chunks[n - 1].units)].last + 1
                   \/ /\ chunks[n - 1].end_sentence = c.start_sentence - 1
                      /\ c.seed.units = 0
                      /\ c.units[1].first = sentences[c.start_sentence + 1].first
              /\ n = 1 => (c.start_sentence = 0 /\ c.units[1].first = 1)
         ELSE /\ \A m \in 1..Len(c.units) :
                   /\ c.units[m] = sentences[c.start_sentence + m]
                   /\ ~LongSentence(c.start_sentence + m - 1)
              /\ (n > 1 /\ chunks[n - 1].level = "word") =>
                   /\ c.seed.units = 0
                   /\ c.start_sentence = chunks[n - 1].end_sentence + 1
                   /\ chunks[n - 1].units[Len(chunks[n - 1].units)].last
                        = sentences[chunks[n - 1].end_sentence + 1].last
    /\ \A n \in 1..(Len(chunks) - 1) :
         /\ chunks[n].start_sentence <= chunks[n + 1].start_sentence
         /\ chunks[n].end_sentence <= chunks[n + 1].end_sentence
    /\ pc = "returned" =>
         \A n \in 0..(Len(sentences) - 1) :
           LongSentence(n) =>
             \E m \in 1..Len(chunks) :
               chunks[m].level = "word" /\ chunks[m].start_sentence = n

\* C26 witness: a pending segment was emitted, then a long sentence came out
\* as two segments of its words.
C26_Witness ==
  /\ pc = "returned"
  /\ ValidConfig
  /\ OneTokenizer
  /\ \E n \in 1..(Len(chunks) - 2) :
       /\ chunks[n].level = "sentence"
       /\ chunks[n + 1].level = "word"
       /\ chunks[n + 2].level = "word"
       /\ chunks[n + 2].start_sentence = chunks[n + 1].start_sentence

\* -------------------------------------------------------- library claims
VectorsOf(article_id) ==
  {n \in 1..Len(pinecone) : pinecone[n].article_id = article_id}

RowsOf(article_id) == {r \in sqlite_chunks : r.article_id = article_id}

\* what a retrieval operation with these arguments and provider outcomes
\* returns over these stores
ResultOf(o, vs, arts) ==
  CASE o.name = "search" ->
         LET s == SearchArticles(vs, o.top_k, o.embed_ok, o.query_ok)
         IN  [NoRet EXCEPT !.results = s.results, !.raised = s.raised]
    [] o.name = "answer" ->
         LET a == AnswerQuestion(vs, o.top_k, o.embed_ok, o.query_ok, o.llm_ok)
         IN  [NoRet EXCEPT !.answer = a.answer, !.sources = a.sources,
                           !.context = a.context, !.evidence = a.evidence]
    [] o.name = "related" ->
         LET f == FindRelatedArticles(vs, arts, o.article_id, o.top_k,
                                      o.embed_ok, o.query_ok)
         IN  [NoRet EXCEPT !.results = f.results]
    [] o.name = "synthesize" ->
         LET y == SynthesizeTopic(vs, o.top_k, o.embed_ok, o.query_ok, o.llm_ok)
         IN  [NoRet EXCEPT !.answer = y.answer, !.context = y.context,
                           !.evidence = y.evidence, !.raised = y.raised]
    [] OTHER -> NoRet

\* C23: after delete_article returned success for an article, no chunk row
\* and no vector of it remains, so that no search returns an item of it;
\* the deletion leaves the rows and vectors of the other articles as they
\* were.
C23_DeleteCascades ==
  /\ [](\A a \in deleted :
          /\ RowsOf(a) = {}
          /\ VectorsOf(a) = {}
          /\ \A n \in 1..Len(ret.results) : ret.results[n].article_id # a)
  /\ [][(lib'.name = "delete" /\ lib.name = "none") =>
          \A a \in ArticleIds \ {lib'.article_id} :
            /\ {r \in sqlite_chunks' : r.article_id = a} = RowsOf(a)
            /\ Cardinality({n \in 1..Len(pinecone') :
                              pinecone'[n].article_id = a})
                 = Cardinality(VectorsOf(a))]_vars

C28_StoreAllOrNothing ==
  (lib.name = "ingest" /\ lib.embeds = 1) =>
    IF lib.ok
    THEN /\ lib.article_id \in articles
         /\ Cardinality(VectorsOf(lib.article_id)) = lib.chunks
         /\ lib.chunks >= 1
    ELSE /\ lib.article_id \notin articles
         /\ VectorsOf(lib.article_id) = {}
         /\ RowsOf(lib.article_id) = {}

\* every article of the metadata store has its chunk rows and its vectors
FullyStored ==
  \A a \in articles : RowsOf(a) # {} /\ VectorsOf(a) # {}

\* C29: ingesting a url that an article of the library has returns failure
\* without fetching, chunking or embedding and leaves both stores as they
\* were; the library never holds two articles of one url.  The first part
\* is stated for a library whose articles are all stored with their chunks,
\* so that a violation does not rest on a half-stored article (C28).
C29_ReingestRejected ==
  /\ [][(lib'.name = "ingest" /\ lib.name = "none" /\ lib'.existed
           /\ FullyStored) =>
          /\ ~lib'.ok
          /\ lib'.fetches = 0
          /\ lib'.embeds = 0
          /\ articles' = articles
          /\ article_url' = article_url
          /\ sqlite_chunks' = sqlite_chunks
          /\ pinecone' = pinecone]_vars
  /\ [](\A a, b \in articles : article_url[a] = article_url[b] => a = b)

====
